---- MODULE Spec2Model ----
(***************************************************************************)
(* Model of function_app.py: the HTTP handlers of the StationTracking      *)
(* admin backend (schema, list, create, update, delete, clone, ui), the    *)
(* header check in front of them, the database connection each of them     *)
(* opens, and the table they act on.                                       *)
(*                                                                         *)
(* Python and SQL values are tagged records, so that a value of one type   *)
(* can be compared with a value of another (an integer identity that ends  *)
(* up under a text column's key, say).  A dict is a function from its keys *)
(* (strings) to values.  A handler is cut into steps at the database       *)
(* statements it executes: everything a handler does between two           *)
(* statements is local to it.                                              *)
(***************************************************************************)
EXTENDS Integers, Sequences, FiniteSets, TLC

VARIABLES
    is_azure,   \* WEBSITE_INSTANCE_ID is set: the managed execution context
    table,      \* the rows of StationTracking: a set of dicts, one per row
    nextId,     \* the next value of the table's IDENTITY column
    pc,         \* per worker: the handler it runs and the statement it is at
    loc,        \* per worker: the locals a handler keeps between statements
    leaked,     \* workers that returned with a connection they never closed
    last        \* the step taken last: its request, statements and response

vars == <<is_azure, table, nextId, pc, loc, leaked, last>>

\* ------------------------------------------------------------ bounds

\* Largest identity value the table hands out to the host that serves one
\* request at a time; inserts stop there.
MaxId == 2

\* Largest identity value the table hands out to the concurrent host: one for
\* a source row, one for its copy and one for another writer's insert.
MaxIdConc == 3

Workers == {"w1", "w2"}

\* ------------------------------------------------------------ values

None == [t |-> "none", v |-> "none"]
Num(n) == [t |-> "num", v |-> n]
Str(s) == [t |-> "str", v |-> s]
Bool(b) == [t |-> "bool", v |-> b]

\* Python's truth value of a scalar: bool(x), `not x`.
Truthy(x) ==
    CASE x.t = "none" -> FALSE
      [] x.t = "bool" -> x.v
      [] x.t = "num" -> x.v # 0
      [] x.t = "str" -> x.v # ""

EmptyDict == << >>

\* dict(zip(keys, vals)): pairs up to the shorter length, a later pair
\* replacing an earlier one with the same key.
Min(a, b) == IF a < b THEN a ELSE b

ZipDict(keys, vals) ==
    LET n == Min(Len(keys), Len(vals))
    IN  [k \in {keys[i] : i \in 1..n} |->
            vals[CHOOSE i \in 1..n :
                    keys[i] = k /\ \A j \in 1..n : keys[j] = k => j <= i]]

\* del d[k]
DictDel(d, k) == [x \in DOMAIN d \ {k} |-> d[x]]

\* d[k] = v
DictSet(d, k, v) == [x \in DOMAIN d \cup {k} |-> IF x = k THEN v ELSE d[x]]

\* ------------------------------------------------------------ the table

\* The columns of StationTracking in ordinal order, as cursor.description
\* reports them for SELECT *.
TableColumns == <<"ID", "Name", "IsActive">>

ColumnSet == {TableColumns[i] : i \in 1..Len(TableColumns)}

\* A fetched row: the row's values in column order.
RowTuple(row) == [i \in 1..Len(TableColumns) |-> row[TableColumns[i]]]

\* columns = [column[0] for column in cursor.description];
\* dict(zip(columns, row))
RowDict(row) == ZipDict(TableColumns, RowTuple(row))

\* SELECT * FROM StationTracking WHERE ID = ?  (fetchone: a row or None)
RowsWithId(tbl, id) == {r \in tbl : r["ID"] = Num(id)}

\* ------------------------------------------------------------ requests

\* What req.headers.get returns for the two trusted headers the check reads:
\* None when the header is absent, else its text.
PrincipalValues == {None, Str(""), Str("user-1")}

\* AZURE_TENANT_ID: the configured expected tenant.
tenant_id == "tenant-A"

TenantValues == {None, Str(tenant_id), Str("tenant-B")}

Headers == [principal : PrincipalValues, tenant : TenantValues]

\* A header pair the check accepts in every context.
GoodHeaders == [principal |-> Str("user-1"), tenant |-> Str(tenant_id)]

\* The route parameter {id}.
Ids == 1..MaxId

\* The JSON bodies of create and update: any subset of these keys, each with
\* one of these values.  "Bogus" is a key that names no column; "id" is a
\* key other than 'ID' that names the identity column.
BodyKeys == {"ID", "id", "Name", "IsActive", "Bogus"}

ValuesFor(k) ==
    CASE k = "ID" -> {Num(i) : i \in 1..MaxId}
      [] k = "id" -> {Num(1)}
      [] k = "Name" -> {Str("a"), Str("b")}
      [] k = "IsActive" -> {Bool(TRUE), Bool(FALSE), Num(0)}
      [] k = "Bogus" -> {Str("a")}

BodyValues == UNION {ValuesFor(k) : k \in BodyKeys}

\* The bodies whose keys are among keys.
BodiesOver(keys) ==
    UNION {{b \in [S -> BodyValues] : \A k \in S : b[k] \in ValuesFor(k)} :
              S \in SUBSET keys}

\* The bodies of the requests: every body over ID, Name, IsActive and Bogus,
\* and every body that holds the key "id" next to columns.
Bodies ==
    BodiesOver(BodyKeys \ {"id"})
    \cup {b \in BodiesOver(BodyKeys \ {"ID", "Bogus"}) : "id" \in DOMAIN b}

Ops == {"ui", "schema", "list", "create", "update", "delete", "clone"}

\* ------------------------------------------------------------ responses

Resp(status, kind, v) == [status |-> status, kind |-> kind, v |-> v]

\* The handler has not returned yet.
NoResp == Resp(0, "none", None)

\* func.HttpResponse(error_message, status_code=401)
Unauthorized(msg) == Resp(401, "text", msg)

\* func.HttpResponse(json.dumps({"error": str(e)}), status_code=500)
ServerError(msg) == Resp(500, "error", msg)

\* str(e) of the TypeError that zip(columns, None) raises when fetchone()
\* returned None: the text the Python runtime gives it (3.10 and later; 3.9).
NoneNotIterable ==
    {"'NoneType' object is not iterable",
     "zip argument #2 must support iteration"}

\* ------------------------------------------------------------ AuthGate

\* Mutant of check_authentication: the tenant is not compared.
check_authentication_NoTenant(azure, hdr) ==
    IF ~azure THEN [ok |-> TRUE, msg |-> ""]
    ELSE IF ~Truthy(hdr.principal)
    THEN [ok |-> FALSE,
          msg |-> "Unauthorized - Please log in to access this application"]
    ELSE [ok |-> TRUE, msg |-> ""]

\* Mutant of check_authentication: the tenant is compared first.
check_authentication_TenantFirst(azure, hdr) ==
    IF ~azure THEN [ok |-> TRUE, msg |-> ""]
    ELSE IF hdr.tenant # Str(tenant_id)
    THEN [ok |-> FALSE,
          msg |-> "Unauthorized - Only users from tenant " \o tenant_id
                    \o " are allowed to access this application"]
    ELSE IF ~Truthy(hdr.principal)
    THEN [ok |-> FALSE,
          msg |-> "Unauthorized - Please log in to access this application"]
    ELSE [ok |-> TRUE, msg |-> ""]

check_authentication(azure, hdr) ==
    IF ~azure THEN [ok |-> TRUE, msg |-> ""]
    ELSE IF ~Truthy(hdr.principal)
    THEN [ok |-> FALSE,
          msg |-> "Unauthorized - Please log in to access this application"]
    ELSE IF hdr.tenant # Str(tenant_id)
    THEN [ok |-> FALSE,
          msg |-> "Unauthorized - Only users from tenant " \o tenant_id
                    \o " are allowed to access this application"]
    ELSE [ok |-> TRUE, msg |-> ""]

\* ------------------------------------------------------------ events

\* A statement a handler executed: its verb and the columns it names (the
\* column list of an INSERT, the SET list of an UPDATE).
Stmt(verb, cols) == [verb |-> verb, cols |-> cols]

\* The record of one step.  conn tells what the step did with a database
\* connection: "none" (none opened), "failed" (the connect call raised),
\* "opened" (opened and kept), "closed" (closed the one it had, or opened
\* and closed one), "left" (the handler returned without closing the one
\* it had), "kept" (went on using the one it had), "reclaimed" (the
\* runtime closed one a handler had left).
Event(w, op, step, hdr, id, body, sql, conn, resp) ==
    [w |-> w, op |-> op, step |-> step, hdr |-> hdr, id |-> id,
     body |-> body, sql |-> sql, conn |-> conn, resp |-> resp]

NoHeaders == [principal |-> None, tenant |-> None]

Locals ==
    [id |-> 0, rowcount |-> 0, src |-> EmptyDict, newId |-> 0, body |-> EmptyDict]

Init ==
    /\ is_azure \in BOOLEAN
    /\ table = {}
    /\ nextId = 1
    /\ pc = [w \in Workers |-> "idle"]
    /\ loc = [w \in Workers |-> Locals]
    /\ leaked = {}
    /\ last = Event("w1", "none", "init", NoHeaders, 0, EmptyDict, << >>,
                    "none", NoResp)

\* Every handler starts with the header check; only a request that passes
\* goes on.  serve_ui answers with the page right away.
Authenticate(w, op, hdr) ==
    /\ pc[w] = "idle"
    /\ LET a == check_authentication(is_azure, hdr)
           r == IF ~a.ok THEN Unauthorized(a.msg)
                ELSE IF op = "ui" THEN Resp(200, "html", None)
                ELSE NoResp
       IN  /\ pc' = [pc EXCEPT ![w] = IF a.ok /\ op # "ui" THEN op ELSE "idle"]
           /\ last' = Event(w, op, "auth", hdr, 0, EmptyDict, << >>, "none", r)
    /\ UNCHANGED <<is_azure, table, nextId, loc, leaked>>

\* ------------------------------------------------------------ database

\* What the server does with a value bound to a column: a bit column takes
\* an integer as zero / non-zero; everything else is stored as given.
Coerce(col, x) ==
    IF col = "IsActive" /\ x.t = "num" THEN Bool(x.v # 0) ELSE x

\* The column a name in a statement refers to: the server matches column
\* names without regard to case, so that "id" is the column ID.
ColumnNamed(name) == IF name = "id" THEN "ID" ELSE name

\* INSERT INTO StationTracking (cols) ...: the server rejects a column the
\* table does not have, an explicit value for the identity column, and an
\* empty column list.
InsertAccepted(cols) ==
    /\ cols # {}
    /\ \A c \in cols : ColumnNamed(c) \in ColumnSet \ {"ID"}

\* The row an accepted INSERT adds: the identity from the table's counter,
\* the listed columns from the parameters, NULL elsewhere.
InsertedRow(fields, id) ==
    [c \in ColumnSet |->
        IF c = "ID" THEN Num(id)
        ELSE IF c \in DOMAIN fields THEN Coerce(c, fields[c])
        ELSE None]

\* UPDATE StationTracking SET cols WHERE ID = ?: the server rejects an empty
\* SET list, a column the table does not have, and the identity column.
UpdateAccepted(cols) ==
    /\ cols # {}
    /\ \A c \in cols : ColumnNamed(c) \in ColumnSet \ {"ID"}

\* Mutant of UpdatedTable: the UPDATE has no WHERE clause.
UpdatedTable_NoWhere(tbl, id, fields) ==
    {[c \in ColumnSet |->
         IF c \in DOMAIN fields THEN Coerce(c, fields[c]) ELSE r[c]] : r \in tbl}

\* The table after an accepted UPDATE.
UpdatedTable(tbl, id, fields) ==
    {IF r["ID"] = Num(id)
        THEN [c \in ColumnSet |->
                 IF c \in DOMAIN fields THEN Coerce(c, fields[c]) ELSE r[c]]
        ELSE r : r \in tbl}

\* Mutant of DeletedTable: the DELETE has no WHERE clause.
DeletedTable_All(tbl, id) == {}

\* DELETE FROM StationTracking WHERE ID = ?
DeletedTable(tbl, id) == {r \in tbl : r["ID"] # Num(id)}

\* ------------------------------------------------------------ create

\* if 'ID' in req_body: del req_body['ID']
StripIdentity(body) ==
    IF "ID" \in DOMAIN body THEN DictDel(body, "ID") ELSE body

\* Mutant of EnsureActive: an absent IsActive is set to False.
EnsureActive_DefaultFalse(body) ==
    IF "IsActive" \in DOMAIN body
    THEN DictSet(body, "IsActive", Bool(Truthy(body["IsActive"])))
    ELSE DictSet(body, "IsActive", Bool(FALSE))

\* IsActive is coerced to a boolean when present and set to True when absent.
EnsureActive(body) ==
    IF "IsActive" \in DOMAIN body
    THEN DictSet(body, "IsActive", Bool(Truthy(body["IsActive"])))
    ELSE DictSet(body, "IsActive", Bool(TRUE))

\* Mutant of CreateFields: the ID key is not removed.
CreateFields_KeepId(body) == EnsureActive(body)

\* The fields create_station inserts for a request body.
CreateFields(body) == EnsureActive(StripIdentity(body))

\* new_station = dict(zip(columns, row)) of the row OUTPUT INSERTED.* returns
CreatedStation(row) == RowDict(row)

\* create_station, after the header check, up to its INSERT: the statement
\* INSERT ... OUTPUT INSERTED.* runs on a connection of the handler's own
\* with autocommit off.  The table gives the row its identity when the
\* statement executes; other connections see the row once it is committed.
create_station(w, body) ==
    /\ pc[w] = "create"
    /\ LET fields == CreateFields(body)
           sql == <<Stmt("INSERT", DOMAIN fields)>>
       IN  IF DOMAIN body = {}
           THEN /\ last' = Event(w, "create", "exec", NoHeaders, 0, body, << >>,
                                 "none", ServerError("Request body is empty"))
                /\ pc' = [pc EXCEPT ![w] = "idle"]
                /\ UNCHANGED <<nextId, loc>>
           ELSE IF ~InsertAccepted(DOMAIN fields)
           THEN /\ last' = Event(w, "create", "exec", NoHeaders, 0, body, sql,
                                 "closed", ServerError("statement rejected"))
                /\ pc' = [pc EXCEPT ![w] = "idle"]
                /\ UNCHANGED <<nextId, loc>>
           ELSE /\ nextId <= MaxIdConc
                /\ nextId' = nextId + 1
                /\ loc' = [loc EXCEPT ![w] =
                              [Locals EXCEPT !.body = body, !.newId = nextId]]
                /\ pc' = [pc EXCEPT ![w] = "create_commit"]
                /\ last' = Event(w, "create", "exec", NoHeaders, 0, body, sql,
                                 "opened", NoResp)
    /\ UNCHANGED <<is_azure, table, leaked>>

\* Mutant of create_station_commit: conn.commit() is missing, and closing
\* the connection discards the INSERT.
create_station_commit_NoCommit(w) ==
    /\ pc[w] = "create_commit"
    /\ pc' = [pc EXCEPT ![w] = "idle"]
    /\ loc' = [loc EXCEPT ![w] = Locals]
    /\ LET row == InsertedRow(CreateFields(loc[w].body), loc[w].newId)
       IN  last' = Event(w, "create", "commit", NoHeaders, 0, loc[w].body,
                         << >>, "closed",
                         Resp(201, "station", CreatedStation(row)))
    /\ UNCHANGED <<is_azure, table, nextId, leaked>>

\* conn.commit() of create_station, the 201 response with the row the INSERT
\* returned, and the finally clause that closes the connection.
create_station_commit(w) ==
    /\ pc[w] = "create_commit"
    /\ pc' = [pc EXCEPT ![w] = "idle"]
    /\ loc' = [loc EXCEPT ![w] = Locals]
    /\ LET row == InsertedRow(CreateFields(loc[w].body), loc[w].newId)
       IN  /\ table' = table \cup {row}
           /\ last' = Event(w, "create", "commit", NoHeaders, 0, loc[w].body,
                            << >>, "closed",
                            Resp(201, "station", CreatedStation(row)))
    /\ UNCHANGED <<is_azure, nextId, leaked>>

\* ------------------------------------------------------------ update

\* Mutant of UpdateFields: IsActive is defaulted as create defaults it.
UpdateFields_DefaultActive(body) == EnsureActive(StripIdentity(body))

\* The fields update_station sets for a request body.
UpdateFields(body) == StripIdentity(body)

\* What a handler without a finally clause does with its connection when a
\* statement raises: it returns without closing it.
Leak(w) == leaked' = leaked \cup {w}

\* update_station up to its commit: the UPDATE on a connection of its own.
update_station(w, id, body) ==
    /\ pc[w] = "update"
    /\ LET fields == UpdateFields(body)
           sql == <<Stmt("UPDATE", DOMAIN fields)>>
       IN  IF ~UpdateAccepted(DOMAIN fields)
           THEN /\ last' = Event(w, "update", "exec", NoHeaders, id, body, sql,
                                 "left", ServerError("statement rejected"))
                /\ pc' = [pc EXCEPT ![w] = "idle"]
                /\ Leak(w)
                /\ UNCHANGED <<table, loc>>
           ELSE /\ table' = UpdatedTable(table, id, fields)
                /\ loc' = [loc EXCEPT ![w] =
                              [Locals EXCEPT !.id = id,
                                  !.rowcount = Cardinality(RowsWithId(table, id))]]
                /\ pc' = [pc EXCEPT ![w] = "update_read"]
                /\ last' = Event(w, "update", "exec", NoHeaders, id, body, sql,
                                 "opened", NoResp)
                /\ UNCHANGED leaked
    /\ UNCHANGED <<is_azure, nextId>>

\* Mutant of update_station_read: a missing row is answered 200 with an empty station.
update_station_read_EmptyOnMissing(w) ==
    /\ pc[w] = "update_read"
    /\ pc' = [pc EXCEPT ![w] = "idle"]
    /\ loc' = [loc EXCEPT ![w] = Locals]
    /\ LET rows == RowsWithId(table, loc[w].id)
       IN  last' = Event(w, "update", "read", NoHeaders, loc[w].id, EmptyDict,
                         <<Stmt("SELECT", {})>>, "closed",
                         Resp(200, "station",
                              IF rows = {} THEN EmptyDict
                              ELSE RowDict(CHOOSE r \in rows : TRUE)))
    /\ UNCHANGED <<is_azure, table, nextId, leaked>>

\* updated_station = dict(zip(columns, cursor.fetchone())): zip raises a
\* TypeError when fetchone returned None.
update_station_read(w) ==
    /\ pc[w] = "update_read"
    /\ pc' = [pc EXCEPT ![w] = "idle"]
    /\ loc' = [loc EXCEPT ![w] = Locals]
    /\ LET rows == RowsWithId(table, loc[w].id)
           sql == <<Stmt("SELECT", {})>>
       IN  IF rows = {}
           THEN /\ \E msg \in NoneNotIterable :
                      last' = Event(w, "update", "read", NoHeaders, loc[w].id,
                              EmptyDict, sql, "left",
                              ServerError(msg))
                /\ Leak(w)
           ELSE /\ last' = Event(w, "update", "read", NoHeaders, loc[w].id,
                                 EmptyDict, sql, "closed",
                                 Resp(200, "station",
                                      RowDict(CHOOSE r \in rows : TRUE)))
                /\ UNCHANGED leaked
    /\ UNCHANGED <<is_azure, table, nextId>>

\* ------------------------------------------------------------ delete

\* delete_station: the DELETE, committed; 204 whatever it deleted.
delete_station(w, id) ==
    /\ pc[w] = "delete"
    /\ pc' = [pc EXCEPT ![w] = "idle"]
    /\ table' = DeletedTable(table, id)
    /\ last' = Event(w, "delete", "exec", NoHeaders, id, EmptyDict,
                     <<Stmt("DELETE", {})>>, "closed", Resp(204, "empty", None))
    /\ UNCHANGED <<is_azure, nextId, loc, leaked>>

\* ------------------------------------------------------------ list

\* get_stations: every row as a dict.  The SELECT has no ORDER BY, so the
\* stations are kept as a set.
get_stations(w) ==
    /\ pc[w] = "list"
    /\ pc' = [pc EXCEPT ![w] = "idle"]
    /\ last' = Event(w, "list", "exec", NoHeaders, 0, EmptyDict,
                     <<Stmt("SELECT", {})>>, "closed",
                     Resp(200, "stations", {RowDict(r) : r \in table}))
    /\ UNCHANGED <<is_azure, table, nextId, loc, leaked>>

\* ------------------------------------------------------------ schema

\* What INFORMATION_SCHEMA.COLUMNS holds for the table: name, type, maximum
\* length, IS_NULLABLE, IsIdentity.
SchemaRows ==
    << <<"ID", "int", None, "NO", 1>>,
       <<"Name", "nvarchar", Num(100), "YES", 0>>,
       <<"IsActive", "bit", None, "YES", 0>> >>

\* What the metadata query returns: the rows of the table's columns, or no
\* row (the view shows only the columns the login may see).
SchemaResults == {SchemaRows, << >>}

\* The CASE expression of the metadata query.
InputType(sqlType) ==
    IF sqlType = "bit" THEN "bit"
    ELSE IF sqlType \in {"int", "bigint", "smallint", "tinyint"} THEN "number"
    ELSE "text"

ColumnDescriptor(row) ==
    [name |-> row[1], type |-> row[2], max_length |-> row[3],
     is_nullable |-> (row[4] = "YES"), is_identity |-> (row[5] # 0),
     input_type |-> InputType(row[2])]

\* get_schema: the metadata query, run on every request; rows is what it
\* returns.  No rows: the handler raises and returns from its except clause.
get_schema(w, rows) ==
    /\ pc[w] = "schema"
    /\ pc' = [pc EXCEPT ![w] = "idle"]
    /\ LET sql == <<Stmt("SELECT", {})>>
       IN  IF rows = << >>
           THEN /\ last' = Event(w, "schema", "exec", NoHeaders, 0, EmptyDict,
                                 sql, "left",
                                 ServerError("No schema information found for StationTracking table"))
                /\ Leak(w)
           ELSE /\ last' = Event(w, "schema", "exec", NoHeaders, 0, EmptyDict,
                                 sql, "closed",
                                 Resp(200, "columns",
                                      [i \in 1..Len(rows) |->
                                          ColumnDescriptor(rows[i])]))
                /\ UNCHANGED leaked
    /\ UNCHANGED <<is_azure, table, nextId, loc>>

\* ------------------------------------------------------------ clone

\* The characters of a column name, for the string operations of clone.
Chars(name) ==
    CASE name = "ID" -> <<"I", "D">>
      [] name = "Name" -> <<"N", "a", "m", "e">>
      [] name = "IsActive" -> <<"I", "s", "A", "c", "t", "i", "v", "e">>

RECURSIVE FromChars(_)
FromChars(cs) == IF cs = << >> THEN "" ELSE Head(cs) \o FromChars(Tail(cs))

\* sep.join(parts)
RECURSIVE Join(_, _)
Join(sep, parts) ==
    IF parts = << >> THEN << >>
    ELSE IF Len(parts) = 1 THEN parts[1]
    ELSE parts[1] \o sep \o Join(sep, Tail(parts))

\* s.split(c)
RECURSIVE Split(_, _)
Split(s, c) ==
    IF \A i \in 1..Len(s) : s[i] # c THEN <<s>>
    ELSE LET i == CHOOSE j \in 1..Len(s) :
                      s[j] = c /\ \A k \in 1..(j - 1) : s[k] # c
         IN  <<SubSeq(s, 1, i - 1)>> \o Split(SubSeq(s, i + 1, Len(s)), c)

\* s.strip() of blanks, as the server reads an identifier of a column list.
RECURSIVE Strip(_)
Strip(s) ==
    IF s # << >> /\ Head(s) = " " THEN Strip(Tail(s))
    ELSE IF s # << >> /\ s[Len(s)] = " " THEN Strip(SubSeq(s, 1, Len(s) - 1))
    ELSE s

\* The columns the server reads in the column list of an INSERT.
ParseColumnList(cs) ==
    LET parts == Split(cs, ",")
    IN  {FromChars(Strip(parts[i])) : i \in 1..Len(parts)}

\* source_station.keys() after del source_station['ID'], in dict order
SourceKeys == SelectSeq(TableColumns, LAMBDA c : c # "ID")

\* columns = ', '.join(source_station.keys())
CloneColumns == Join(<<",", " ">>, [i \in 1..Len(SourceKeys) |-> Chars(SourceKeys[i])])

\* columns.split(',')
CloneKeys ==
    LET parts == Split(CloneColumns, ",")
    IN  [i \in 1..Len(parts) |-> FromChars(parts[i])]

\* new_station = dict(zip(columns.split(','), cursor.fetchone()))
ClonedStation(row) == ZipDict(CloneKeys, RowTuple(row))

\* clone_station up to its first statement: the SELECT of the source row.
clone_station(w, id) ==
    /\ pc[w] = "clone"
    /\ LET rows == RowsWithId(table, id)
           sql == <<Stmt("SELECT", {})>>
       IN  IF rows = {}
           THEN /\ \E msg \in NoneNotIterable :
                      last' = Event(w, "clone", "exec", NoHeaders, id, EmptyDict,
                              sql, "left",
                              ServerError(msg))
                /\ pc' = [pc EXCEPT ![w] = "idle"]
                /\ Leak(w)
                /\ UNCHANGED loc
           ELSE /\ loc' = [loc EXCEPT ![w] =
                              [Locals EXCEPT !.id = id,
                                  !.src = DictDel(RowDict(CHOOSE r \in rows : TRUE),
                                                  "ID")]]
                /\ pc' = [pc EXCEPT ![w] = "clone_insert"]
                /\ last' = Event(w, "clone", "exec", NoHeaders, id, EmptyDict,
                                 sql, "opened", NoResp)
                /\ UNCHANGED leaked
    /\ UNCHANGED <<is_azure, table, nextId>>

\* The INSERT of the copy, on the handler's connection with autocommit off:
\* the table gives the copy its identity, which is the session's
\* SCOPE_IDENTITY from then on; other connections do not see the copy yet.
clone_station_insert(w) ==
    /\ pc[w] = "clone_insert"
    /\ LET cols == ParseColumnList(CloneColumns)
           sql == <<Stmt("INSERT", cols)>>
       IN  IF ~InsertAccepted(cols)
           THEN /\ last' = Event(w, "clone", "insert", NoHeaders, loc[w].id,
                                 EmptyDict, sql, "left",
                                 ServerError("statement rejected"))
                /\ pc' = [pc EXCEPT ![w] = "idle"]
                /\ loc' = [loc EXCEPT ![w] = Locals]
                /\ Leak(w)
                /\ UNCHANGED nextId
           ELSE /\ nextId <= MaxIdConc
                /\ nextId' = nextId + 1
                /\ loc' = [loc EXCEPT ![w].newId = nextId]
                /\ pc' = [pc EXCEPT ![w] = "clone_commit"]
                /\ last' = Event(w, "clone", "insert", NoHeaders, loc[w].id,
                                 EmptyDict, sql, "kept", NoResp)
                /\ UNCHANGED leaked
    /\ UNCHANGED <<is_azure, table>>

\* conn.commit() of clone_station: the copy is in the table for every
\* connection.
clone_station_commit(w) ==
    /\ pc[w] = "clone_commit"
    /\ pc' = [pc EXCEPT ![w] = "clone_read"]
    /\ table' = table \cup {InsertedRow(loc[w].src, loc[w].newId)}
    /\ last' = Event(w, "clone", "commit", NoHeaders, loc[w].id, EmptyDict,
                     << >>, "kept", NoResp)
    /\ UNCHANGED <<is_azure, nextId, loc, leaked>>

\* Mutant of clone_station_read: the commit comes after the re-read, so a
\* re-read that fails takes the INSERT back.
clone_station_read_CommitAfter(w, scope) ==
    /\ pc[w] = "clone_read"
    /\ pc' = [pc EXCEPT ![w] = "idle"]
    /\ loc' = [loc EXCEPT ![w] = Locals]
    /\ LET rows == IF scope THEN RowsWithId(table, loc[w].newId) ELSE {}
           sql == <<Stmt("SELECT", {})>>
       IN  IF rows = {}
           THEN /\ \E msg \in NoneNotIterable :
                      last' = Event(w, "clone", "read", NoHeaders, loc[w].id,
                              EmptyDict, sql, "left",
                              ServerError(msg))
                /\ table' = table \ RowsWithId(table, loc[w].newId)
                /\ Leak(w)
           ELSE /\ last' = Event(w, "clone", "read", NoHeaders, loc[w].id,
                                 EmptyDict, sql, "closed",
                                 Resp(201, "station",
                                      ClonedStation(CHOOSE r \in rows : TRUE)))
                /\ UNCHANGED <<table, leaked>>
    /\ UNCHANGED <<is_azure, nextId>>

\* Mutant of clone_station_read: the re-read is by the identity the table
\* assigned last, in whatever session (IDENT_CURRENT).
clone_station_read_LastIdentity(w, scope) ==
    /\ pc[w] = "clone_read"
    /\ pc' = [pc EXCEPT ![w] = "idle"]
    /\ loc' = [loc EXCEPT ![w] = Locals]
    /\ LET rows == IF scope THEN RowsWithId(table, nextId - 1) ELSE {}
           sql == <<Stmt("SELECT", {})>>
       IN  IF rows = {}
           THEN /\ \E msg \in NoneNotIterable :
                      last' = Event(w, "clone", "read", NoHeaders, loc[w].id,
                              EmptyDict, sql, "left",
                              ServerError(msg))
                /\ Leak(w)
           ELSE /\ last' = Event(w, "clone", "read", NoHeaders, loc[w].id,
                                 EmptyDict, sql, "closed",
                                 Resp(201, "station",
                                      ClonedStation(CHOOSE r \in rows : TRUE)))
                /\ UNCHANGED leaked
    /\ UNCHANGED <<is_azure, table, nextId>>

\* SELECT * FROM StationTracking WHERE ID = SCOPE_IDENTITY(), a batch of its
\* own.  scope: the driver ran the INSERT in the scope of this batch, so
\* SCOPE_IDENTITY() is the identity the INSERT was given; otherwise (the
\* driver ran the parameterized INSERT as a prepared statement, in a scope
\* of its own) it is NULL and the SELECT finds nothing.
clone_station_read(w, scope) ==
    /\ pc[w] = "clone_read"
    /\ pc' = [pc EXCEPT ![w] = "idle"]
    /\ loc' = [loc EXCEPT ![w] = Locals]
    /\ LET rows == IF scope THEN RowsWithId(table, loc[w].newId) ELSE {}
           sql == <<Stmt("SELECT", {})>>
       IN  IF rows = {}
           THEN /\ \E msg \in NoneNotIterable :
                      last' = Event(w, "clone", "read", NoHeaders, loc[w].id,
                              EmptyDict, sql, "left",
                              ServerError(msg))
                /\ Leak(w)
           ELSE /\ last' = Event(w, "clone", "read", NoHeaders, loc[w].id,
                                 EmptyDict, sql, "closed",
                                 Resp(201, "station",
                                      ClonedStation(CHOOSE r \in rows : TRUE)))
                /\ UNCHANGED leaked
    /\ UNCHANGED <<is_azure, table, nextId>>

\* ------------------------------------------------------------ connections

\* get_db_connection raises (the token exchange or the connect call fails):
\* the handler answers 500 and has no connection to close.  This is the
\* first use of the database in every handler, whatever the request holds.
get_db_connection_fails(w) ==
    /\ pc[w] \in Ops
    /\ pc' = [pc EXCEPT ![w] = "idle"]
    /\ last' = Event(w, pc[w], "exec", NoHeaders, 0, EmptyDict, << >>,
                     "failed", ServerError("connect failed"))
    /\ UNCHANGED <<is_azure, table, nextId, loc, leaked>>

\* A connection a handler returned without closing is closed when the
\* runtime reclaims the object, at a time of the runtime's choosing.
Reclaim(w) ==
    /\ w \in leaked
    /\ leaked' = leaked \ {w}
    /\ last' = Event(w, "none", "reclaim", NoHeaders, 0, EmptyDict, << >>,
                     "reclaimed", NoResp)
    /\ UNCHANGED <<is_azure, table, nextId, pc, loc>>

\* ------------------------------------------------------------ specification

\* One step of worker w, with the requests drawn from hdrs, ids and bodies,
\* on a table that hands out the identities up to cap.
Step(w, hdrs, ids, bodies, cap) ==
    \/ \E op \in Ops, hdr \in hdrs : Authenticate(w, op, hdr)
    \/ get_db_connection_fails(w)
    \/ \E rows \in SchemaResults : get_schema(w, rows)
    \/ get_stations(w)
    \/ \E body \in bodies : create_station(w, body) /\ nextId' <= cap + 1
    \/ create_station_commit(w)
    \/ \E id \in ids, body \in bodies : update_station(w, id, body)
    \/ update_station_read(w)
    \/ \E id \in ids : delete_station(w, id)
    \/ \E id \in ids : clone_station(w, id)
    \/ clone_station_insert(w) /\ nextId' <= cap + 1
    \/ clone_station_commit(w)
    \/ \E scope \in BOOLEAN : clone_station_read(w, scope)
    \/ Reclaim(w)

\* A host that serves one request at a time, with every request.
Next == Step("w1", Headers, Ids, Bodies, MaxId)

Spec == Init /\ [][Next]_vars

\* The requests of the concurrent host: accepted headers, and bodies that
\* name a station or nothing.
ConcBodies == {b \in Bodies : DOMAIN b \subseteq {"Name"}}

\* A host whose workers serve requests at the same time: their statements
\* interleave.
NextConc == \E w \in Workers : Step(w, {GoodHeaders}, Ids, ConcBodies, MaxIdConc)

SpecConc == Init /\ [][NextConc]_vars

\* ------------------------------------------------------------ properties

\* The statements of the last step that write columns.
Writes(e) ==
    {e.sql[i] : i \in {j \in 1..Len(e.sql) : e.sql[j].verb \in {"INSERT", "UPDATE"}}}

\* C1: whatever keys the request body of create or update holds, the column
\* list of the INSERT and the SET list of the UPDATE the handler executes
\* never name the identity column.  The handlers remove the key 'ID' and no
\* other: a key that names the identity column in another spelling stays.
C1_IdentityExcluded ==
    \A st \in Writes(last) : \A c \in st.cols : ColumnNamed(c) # "ID"

\* A header pair that does not authenticate in the managed context: no
\* principal (absent or empty), or a tenant other than the expected one.
FailsAuth(hdr) ==
    \/ hdr.principal \in {None, Str("")}
    \/ hdr.tenant # Str("tenant-A")

\* C2: in the managed context, on every endpoint other than /ui, a request
\* that fails authentication is answered 401 at once: no connection is
\* opened, no statement is executed, the handler does not go on, and the
\* table (with its identity counter) is as before.
C2_AuthFailureTouchesNothing ==
    [][(is_azure /\ last'.step = "auth" /\ last'.op # "ui"
            /\ FailsAuth(last'.hdr))
        => /\ last'.resp.status = 401
           /\ last'.conn = "none"
           /\ last'.sql = << >>
           /\ pc'[last'.w] = "idle"
           /\ table' = table
           /\ nextId' = nextId
           /\ leaked' = leaked]_vars

\* C2 witness: in the managed context a create without the principal header
\* was answered 401 while the table holds a row.
C2_Witness ==
    /\ is_azure
    /\ last.step = "auth"
    /\ last.op = "create"
    /\ last.hdr.principal = None
    /\ last.resp.status = 401
    /\ table # {}

\* What the header check answered in an "auth" step.
AuthOk(e) == e.resp.status # 401

PleaseLogIn == "Unauthorized - Please log in to access this application"

WrongTenant ==
    "Unauthorized - Only users from tenant tenant-A are allowed to access this application"

\* C3 as stated: in the managed context the check passes exactly when the
\* principal header is present and the tenant header equals the expected
\* tenant.  An empty principal header is present, and the code refuses it.
C3_Original ==
    last.step = "auth" =>
        IF ~is_azure THEN AuthOk(last)
        ELSE /\ AuthOk(last) <=>
                    (last.hdr.principal # None /\ last.hdr.tenant = Str("tenant-A"))
             /\ last.hdr.principal = None =>
                    (~AuthOk(last) /\ last.resp.v = PleaseLogIn)
             /\ (last.hdr.principal # None /\ last.hdr.tenant # Str("tenant-A")) =>
                    (~AuthOk(last) /\ last.resp.v = WrongTenant)

\* C3 amended: outside the managed context the check passes for any
\* headers; in it, it passes exactly when the principal header is present
\* and not empty and the tenant header equals the expected tenant, answers
\* "please log in" when the principal header is absent or empty (checked
\* first), and answers the tenant message when the principal is there but
\* the tenant differs.
C3_Authenticate ==
    last.step = "auth" =>
        LET hasPrincipal == last.hdr.principal \notin {None, Str("")}
            tenantOk == last.hdr.tenant = Str("tenant-A")
        IN  IF ~is_azure THEN AuthOk(last)
            ELSE /\ AuthOk(last) <=> (hasPrincipal /\ tenantOk)
                 /\ ~hasPrincipal =>
                        (~AuthOk(last) /\ last.resp.v = PleaseLogIn)
                 /\ (hasPrincipal /\ ~tenantOk) =>
                        (~AuthOk(last) /\ last.resp.v = WrongTenant)

\* C3 witness: in the managed context a request with an empty principal
\* header and the expected tenant was refused with "please log in".
C3_Witness ==
    /\ is_azure
    /\ last.step = "auth"
    /\ last.hdr = [principal |-> Str(""), tenant |-> Str("tenant-A")]
    /\ last.resp = Resp(401, "text", PleaseLogIn)

\* C4 as stated: a clone that answers 201 has added a row whose columns
\* other than ID equal the source row's and whose ID differs, and the
\* station it returns maps every column to that row's value.  The code pairs
\* the names of the copied columns (ID left out, split at "," only) with the
\* values of all columns, so the station maps "Name" to the new ID and
\* " IsActive" to the name.
C4_CloneReturnsNewRow ==
    (last.op = "clone" /\ last.step = "read" /\ last.resp.status = 201) =>
        \E src \in RowsWithId(table, last.id), new \in table :
            /\ new["ID"] # src["ID"]
            /\ \A c \in ColumnSet \ {"ID"} : new[c] = src[c]
            /\ DOMAIN last.resp.v = ColumnSet
            /\ \A c \in ColumnSet : last.resp.v[c] = new[c]

\* C5: the station a create returns has IsActive true when the body had no
\* IsActive, and the supplied value when the body supplied a boolean.
C5_ActiveDefault ==
    (last.op = "create" /\ last.resp.status = 201) =>
        /\ "IsActive" \notin DOMAIN last.body =>
               last.resp.v["IsActive"] = Bool(TRUE)
        /\ ("IsActive" \in DOMAIN last.body /\ last.body["IsActive"].t = "bool") =>
               last.resp.v["IsActive"] = last.body["IsActive"]

\* C5 witness: a create whose body named a station and no IsActive was
\* answered 201 with IsActive true.
C5_Witness ==
    /\ last.op = "create"
    /\ last.resp.status = 201
    /\ DOMAIN last.body = {"Name"}
    /\ last.resp.v["IsActive"] = Bool(TRUE)

\* C6 as stated: the identity of the row a create returns differs from the
\* identity the client supplied.  The server assigns the next identity
\* whatever the client sent, and the client may have sent that very value.
C6_Original ==
    (last.op = "create" /\ last.resp.status = 201 /\ "ID" \in DOMAIN last.body) =>
        last.resp.v["ID"] # last.body["ID"]

\* C6 amended: create never uses a client-supplied identity.  An ID key
\* is dropped, not refused: a body whose other keys are columns is inserted.
\* The identity of the row is the one the server assigns when the INSERT
\* executes, the table's next identity value, which no row holds; the commit
\* adds that row and no other, and the 201 response returns it.
C6_ServerAssignedIdentity ==
    [][/\ (last'.op = "create" /\ last'.step = "exec" /\ last'.conn # "failed"
              /\ "ID" \in DOMAIN last'.body)
          => /\ (DOMAIN last'.body \ {"ID"}) \subseteq ColumnSet =>
                    last'.resp.status = 0
             /\ last'.resp.status = 0 =>
                    /\ loc'[last'.w].newId = nextId
                    /\ nextId' = nextId + 1
                    /\ \A r \in table : r["ID"] # Num(nextId)
       /\ (last'.op = "create" /\ last'.step = "commit"
              /\ "ID" \in DOMAIN last'.body)
          => /\ last'.resp.status = 201
             /\ last'.resp.v["ID"] = Num(loc[last'.w].newId)
             /\ \A r \in table : r["ID"] # Num(loc[last'.w].newId)
             /\ \E r \in table' \ table :
                    /\ table' = table \cup {r}
                    /\ last'.resp.v = r]_vars

\* C6 witness: a create whose body supplied the ID of a row that exists was
\* answered 201 with another identity.
C6_Witness ==
    /\ last.op = "create"
    /\ last.resp.status = 201
    /\ "ID" \in DOMAIN last.body
    /\ RowsWithId(table, last.body["ID"].v) # {}
    /\ last.resp.v["ID"] # last.body["ID"]

\* C7 as stated: an update of an id that matches no row changes nothing in
\* the table and ends in an error response: the UPDATE is rejected (500), or
\* it matches nothing and the re-read that follows finds nothing, which the
\* handler answers with a 500 and never with a 200 and a station.
C7_Original ==
    [][/\ (last'.op = "update" /\ last'.step = "exec" /\ last'.conn # "failed"
              /\ RowsWithId(table, last'.id) = {})
          => /\ table' = table
             /\ last'.resp.status \in {0, 500}
             /\ last'.resp.status = 0 =>
                    /\ pc'[last'.w] = "update_read"
                    /\ loc'[last'.w].id = last'.id
                    /\ loc'[last'.w].rowcount = 0
       /\ (last'.op = "update" /\ last'.step = "read"
              /\ loc[last'.w].rowcount = 0)
          => /\ last'.resp.status = 500
             /\ last'.resp.kind = "error"
             /\ table' = table]_vars

\* C7 amended: an update of an id that matches no row changes nothing in
\* the table: the UPDATE is rejected (500), or it matches nothing and the
\* handler goes on to its re-read.  The re-read changes nothing either and
\* answers by what the table holds then: a 500 when no row has the id, and,
\* when another request has committed a row with the id since the UPDATE, a
\* 200 with that row, which the update did not touch.
C7_UpdateMissingRow ==
    [][/\ (last'.op = "update" /\ last'.step = "exec" /\ last'.conn # "failed"
              /\ RowsWithId(table, last'.id) = {})
          => /\ table' = table
             /\ last'.resp.status \in {0, 500}
             /\ last'.resp.status = 0 =>
                    /\ pc'[last'.w] = "update_read"
                    /\ loc'[last'.w].id = last'.id
                    /\ loc'[last'.w].rowcount = 0
       /\ (last'.op = "update" /\ last'.step = "read"
              /\ loc[last'.w].rowcount = 0)
          => /\ table' = table
             /\ IF RowsWithId(table, loc[last'.w].id) = {}
                THEN /\ last'.resp.status = 500
                     /\ last'.resp.kind = "error"
                ELSE /\ last'.resp.status = 200
                     /\ \E r \in RowsWithId(table, loc[last'.w].id) :
                            last'.resp.v = r]_vars

\* C7 witness: the UPDATE of a worker's update matched no row, another
\* request has committed a row with that id since, and the re-read that
\* will find it is the worker's next step.
C7_Witness ==
    \E w \in Workers :
        /\ pc[w] = "update_read"
        /\ loc[w].rowcount = 0
        /\ RowsWithId(table, loc[w].id) # {}

\* C8: an update whose field map is empty once the identity key is removed
\* (an empty body, or a body with the ID key alone) changes no row and is
\* answered in that step with the error response: the UPDATE with an empty
\* SET list is rejected and the handler answers 500.
C8_UpdateEmptyMap ==
    [][(last'.op = "update" /\ last'.step = "exec" /\ last'.conn # "failed"
            /\ DOMAIN last'.body \subseteq {"ID"})
        => /\ table' = table
           /\ last'.resp.status = 500
           /\ last'.resp.kind = "error"
           /\ pc'[last'.w] = "idle"]_vars

\* C8 witness: an update of an inactive row with a body holding the ID key
\* alone was answered 500.
C8_Witness ==
    /\ last.op = "update"
    /\ last.step = "exec"
    /\ DOMAIN last.body = {"ID"}
    /\ last.resp.status = 500
    /\ \E r \in RowsWithId(table, last.id) : r["IsActive"] = Bool(FALSE)

\* C9: a delete that reaches the database answers 204 whether or not a row
\* with the id exists; after it no row has the id, every other row is as it
\* was and no row is added; on a table without the id (as after a first
\* delete) it answers 204 again and leaves the table as it is.
C9_DeleteIdempotent ==
    [][(last'.op = "delete" /\ last'.step = "exec" /\ last'.conn # "failed")
        => /\ last'.resp.status = 204
           /\ RowsWithId(table', last'.id) = {}
           /\ table' \subseteq table
           /\ \A r \in table : r["ID"] # Num(last'.id) => r \in table'
           /\ RowsWithId(table, last'.id) = {} => table' = table
           /\ nextId' = nextId]_vars

\* C9 witness: a delete of an id the table never assigned was answered 204
\* and the table still holds its rows.
C9_Witness ==
    /\ last.op = "delete"
    /\ last.resp.status = 204
    /\ last.id >= nextId
    /\ table # {}

\* The connections worker w has open: the one its running handler uses and
\* the one a handler of its left unclosed.
LiveConnections(w) ==
    (IF pc[w] \in {"create_commit", "update_read", "clone_insert",
                    "clone_commit", "clone_read"} THEN 1 ELSE 0)
    + (IF w \in leaked THEN 1 ELSE 0)

\* C10 as stated: a pool keeps one live connection per worker, which a later
\* acquire reuses and which is closed only when its liveness probe fails.
\* The handlers have no pool and no probe: each closes the connection it
\* opened when it is done.
C10_Original ==
    /\ \A w \in Workers : LiveConnections(w) <= 1
    /\ last.conn # "closed"

\* The step was a schema request that ran the metadata query.
SchemaQuery(e) ==
    /\ e.op = "schema"
    /\ e.step = "exec"
    /\ e.sql # << >>

\* C11 as stated: the metadata query is executed at most once, so a schema
\* request served right after another worker's metadata query does not run
\* the query again.
C11_Original ==
    [][~(SchemaQuery(last) /\ SchemaQuery(last') /\ last'.w # last.w)]_vars

\* The statuses of the success responses.
SuccessStatuses == {200, 201, 204}

\* C12: every response that is not a success is an error response with the
\* body {error: string}: status 401 when the request fails authentication,
\* status 500 for every other failure; no handler produces another error
\* status or another error body.
C12_ErrorBodyShape ==
    last.resp.status # 0 =>
        /\ last.resp.status \in SuccessStatuses \cup {401, 500}
        /\ last.resp.status = 401 <=>
               (last.step = "auth" /\ is_azure /\ FailsAuth(last.hdr))
        /\ last.resp.status \notin SuccessStatuses => last.resp.kind = "error"

\* C13: an update whose statement the server accepts sets, in the row with
\* the request's id, exactly the columns the body names other than ID, each
\* to the supplied value as the column stores it; every other column of that
\* row and every other row is as before, and no row is added or removed. An
\* update whose statement is rejected changes nothing.
C13_UpdateFrame ==
    [][(last'.op = "update" /\ last'.step = "exec" /\ last'.conn # "failed")
        => LET id == Num(last'.id)
               body == last'.body
               named == DOMAIN body \ {"ID"}
           IN  IF last'.resp.status = 500 THEN table' = table
               ELSE /\ {r["ID"] : r \in table'} = {r["ID"] : r \in table}
                    /\ Cardinality(table') = Cardinality(table)
                    /\ \A r \in table : r["ID"] # id => r \in table'
                    /\ \A r \in table : r["ID"] = id =>
                          \E r2 \in table' :
                              /\ r2["ID"] = id
                              /\ \A c \in ColumnSet \ {"ID"} :
                                    r2[c] = IF c \in named
                                            THEN Coerce(c, body[c])
                                            ELSE r[c]]_vars

\* C13 witness: an accepted update that names Name alone has changed the
\* name of its row, in a table with another row whose name and activity
\* differ from the updated row's.
C13_Witness ==
    /\ last.op = "update"
    /\ last.step = "exec"
    /\ last.resp.status = 0
    /\ DOMAIN last.body = {"ID", "Name"}
    /\ \E r \in table, o \in table :
          /\ r["ID"] = Num(last.id)
          /\ o["ID"] # r["ID"]
          /\ r["Name"] = last.body["Name"]
          /\ o["Name"] # r["Name"]
          /\ r["IsActive"] = Bool(FALSE)
          /\ o["IsActive"] = Bool(TRUE)

\* C14: clone is not atomic.  Its INSERT is committed in a step of its own,
\* before the re-read: from then on the table holds the copy, with the
\* identity the table assigned and the source row's other columns.  A
\* re-read that then fails is answered with an error response and takes
\* nothing back: the table is as the commit left it and still holds the copy.
C14_CloneNotAtomic ==
    [][/\ (last'.op = "clone" /\ last'.step = "commit")
          => /\ pc'[last'.w] = "clone_read"
             /\ \E r \in table' \ table :
                    /\ table' = table \cup {r}
                    /\ r["ID"] = Num(loc[last'.w].newId)
                    /\ \A c \in ColumnSet \ {"ID"} : r[c] = loc[last'.w].src[c]
       /\ (last'.op = "clone" /\ last'.step = "read" /\ last'.resp.status = 500)
          => /\ last'.resp.kind = "error"
             /\ table' = table
             /\ RowsWithId(table', loc[last'.w].newId) # {}]_vars

\* C14 witness: a clone was answered with an error response by its re-read
\* while the table holds the source row and the copy the clone inserted, the
\* row with the identity assigned last.
C14_Witness ==
    /\ last.op = "clone"
    /\ last.step = "read"
    /\ last.resp.status = 500
    /\ \E src \in RowsWithId(table, last.id), copy \in RowsWithId(table, nextId - 1) :
          /\ copy["ID"] # src["ID"]
          /\ \A c \in ColumnSet \ {"ID"} : copy[c] = src[c]

\* The identity of the row a clone read back: the first value of the fetched
\* row, which the returned station holds under the first of its keys.
ReadBackId(e) == e.resp.v[CloneKeys[1]]

\* C15 as stated: the re-read is by the identity inserted last, so that after
\* another writer's insert between clone's INSERT and its re-read the row
\* read back is the row inserted last, the other writer's.
C15_Original ==
    [][(last'.op = "clone" /\ last'.step = "read" /\ last'.resp.status = 201)
        => ReadBackId(last') = Num(nextId - 1)]_vars

\* C15: clone's INSERT, its commit and its re-read are separate steps
\* between which other writers insert, but the re-read is by
\* SCOPE_IDENTITY() on the connection clone opened for itself: the row a
\* clone reads back and returns is the row with the identity its own INSERT
\* was given, whatever other writers inserted meanwhile, and never another
\* writer's row.
C15_ReadsBackOwnRow ==
    [][/\ (last'.op = "clone" /\ last'.step = "insert" /\ last'.resp.status = 0)
          => /\ loc'[last'.w].newId = nextId
             /\ nextId' = nextId + 1
             /\ \A w \in Workers \ {last'.w} : loc[w].newId # nextId
       /\ (last'.op = "clone" /\ last'.step = "commit")
          => table' \ table = RowsWithId(table', loc[last'.w].newId)
       /\ (last'.op = "clone" /\ last'.step = "read" /\ last'.resp.status = 201)
          => /\ ReadBackId(last') = Num(loc[last'.w].newId)
             /\ RowsWithId(table, loc[last'.w].newId) # {}]_vars

\* C15 witness: a clone was answered 201 with the row of its own INSERT
\* although the table has assigned a later identity since, to the insert of
\* another writer that came between the clone's INSERT and its re-read.
C15_Witness ==
    /\ last.op = "clone"
    /\ last.step = "read"
    /\ last.resp.status = 201
    /\ ReadBackId(last).v < nextId - 1
    /\ RowsWithId(table, nextId - 1) # {}

\* C16: create is all-or-nothing.  It ends with 201 or with an error
\* response; with an error response (empty body, rejected statement, no
\* connection) the table is as before; until the commit the table is as
\* before; and the 201 comes in the step that commits, with the table
\* holding exactly one row more, which is the station returned.
C16_CreateAllOrNothing ==
    [][/\ (last'.op = "create" /\ last'.step = "exec")
          => /\ last'.resp.status \in {0, 500}
             /\ table' = table
             /\ last'.resp.status = 500 =>
                    /\ last'.resp.kind = "error"
                    /\ pc'[last'.w] = "idle"
             /\ last'.resp.status = 0 => pc'[last'.w] = "create_commit"
       /\ (last'.op = "create" /\ last'.step = "commit")
          => /\ last'.resp.status = 201
             /\ pc'[last'.w] = "idle"
             /\ \E r \in table' \ table :
                    /\ table' = table \cup {r}
                    /\ last'.resp.v = r
       /\ (last'.op = "create" /\ last'.resp.status = 201)
          => last'.step = "commit"]_vars

\* C16 witness: a create whose INSERT named a column the table does not have
\* was answered with an error response, and the table holds the rows of
\* earlier creates.
C16_Witness ==
    /\ last.op = "create"
    /\ last.step = "exec"
    /\ last.resp.status = 500
    /\ "Bogus" \in DOMAIN last.body
    /\ last.sql # << >>
    /\ table # {}

\* C17: a handler that has returned its response, a success or an error, has
\* closed the connection it opened, so that no worker holds a connection of
\* a request it has answered.  Only create_station closes its connection in
\* a finally clause; the other handlers return from their except clause with
\* the connection open.
C17_ConnectionsClosed ==
    /\ last.resp.status # 0 => last.conn \in {"none", "failed", "closed"}
    /\ leaked = {}

====
